---- MODULE Spec2Model ----
(***************************************************************************)
(* Model of src/trading_system.py: the scheduled trading cycle             *)
(* (TradingSystem.trading_cycle), the risk-gated execution of signals      *)
(* (execute_signals / TradeExecutor.execute_trade), the position monitor   *)
(* (TradeExecutor.close_positions) and the store they share (Database).    *)
(*                                                                         *)
(* Units.  Money is held in units of 1/(1000 * MoneyScale) EUR, prices in  *)
(* ticks, quantities in units of 1/QtyScale, so that every quotient the    *)
(* code computes in floating point (position_size / price and              *)
(* quantity * price) is exact on the prices drawn here.  Time is in        *)
(* seconds; the store's CURRENT_TIMESTAMP and datetime.now() are taken to  *)
(* be the same clock.                                                      *)
(*                                                                         *)
(* close_positions reads a module global `data_fetcher` (line 673) that    *)
(* no line of src/ binds, and indexes the row of get_asset by column name. *)
(* Where the name is unbound the read raises NameError and the exception   *)
(* leaves trading_cycle; bound = FALSE is that program.  bound = TRUE is   *)
(* the program in which the read resolves to the system's DataFetcher and  *)
(* the row is a mapping, so that the rest of close_positions runs as       *)
(* written.  A property stated for all behaviours covers both.             *)
(***************************************************************************)
EXTENDS Integers, Sequences, FiniteSets, TLC

VARIABLES
    now,          \* wall clock, seconds
    ticks,        \* number of clock advances so far (bounded by MaxTicks)
    faults,       \* number of store write failures so far (bounded by MaxFaults)
    watchlist,    \* self.watchlist, built once by _load_watchlist
    bound,        \* whether line 673 of close_positions evaluates (see below)
    assets,       \* table assets: the ids it holds a row for
    cache,        \* DataFetcher.CACHE: asset id -> NoEntry or [t, price]
    trades,       \* table trades, in insertion order
    positions,    \* table positions, in insertion order
    placed,       \* orders the venue accepted, in order
    cyc,          \* per scheduler instance slot: the trading_cycle coroutine's frame
    sent,         \* the notifications send_notification was given in the latest step
    saved,        \* rows the latest step inserted into table system_status
    last,         \* outcome of the latest step, for observation
    sys,          \* scheduler.running, data_fetcher.session.closed, db.conn closed
    ranking,      \* what analyze_assets returned, if the latest step called it
    sizing        \* the sizing of a signal (lines 968-974), if the latest step was one

vars == <<now, ticks, faults, watchlist, bound, assets, cache, trades, positions, placed,
          cyc, sent, saved, last, sys, ranking, sizing>>

-----------------------------------------------------------------------------
(* Bounds of the model *)

MaxTrades == 3
MaxTicks == 1
MaxFaults == 1
NumSlots == 2

(* Program constants *)

DAILY_INVESTMENT_EUR == 3
MAX_SINGLE_INVESTMENT_EUR == 10
MAX_DAILY_INVESTMENT_EUR == 15
CACHE_TTL == 300
(* add_job(self.trading_cycle, 'interval', minutes=15) passes no
   max_instances: the scheduler's default of 1 applies; max_instances_two is
   the job with two instances allowed *)
max_instances_two == 1 + 1
max_instances == 1
portfolio_value == 1000
volatility == 20
entry_threshold == 75
exit_threshold == 40
SecondsPerDay == 86400

-----------------------------------------------------------------------------
(* Inputs *)

(* Two prices, each beyond the other's stop-loss / take-profit level, and
   such that the levels are whole ticks *)
PLow == 2 * 1000
PHigh == 5 * PLow
Prices == {PLow, PHigh}
Composites == {39, 40, 75, 100}
TickSteps == {CACHE_TTL, SecondsPerDay - 30, SecondsPerDay}

QtyScale == PHigh
MoneyScale == (PHigh \div PLow) ^ (MaxTrades \div 2)
Eur == 1000 * MoneyScale

Slots == 1..NumSlots
NULL == 0 - 1
NoEntry == [t |-> NULL, price |-> NULL]

Min(a, b) == IF a <= b THEN a ELSE b
Max(a, b) == IF a >= b THEN a ELSE b

(* The watchlist built by _load_watchlist when the scan finds assets: crypto
   assets are given platform Binance, stocks platform Polygon; ids are 1..n.
   The scan may also find none, and the watchlist is then empty. *)
Watchlist ==
    << [id |-> 1, asset_type |-> "crypto", platform |-> "Binance"],
       [id |-> 2, asset_type |-> "stocks", platform |-> "Polygon"] >>

(* The watchlist when the scan finds two crypto assets and no stock *)
WatchlistCrypto ==
    << [id |-> 1, asset_type |-> "crypto", platform |-> "Binance"],
       [id |-> 2, asset_type |-> "crypto", platform |-> "Binance"] >>

WatchIds == {Watchlist[n].id : n \in 1..Len(Watchlist)}

(* Table assets is filled by db_init.py, independently of the watchlist: it
   holds a row for the traded asset, or not *)
StoreAssets == {{}, {1}}

-----------------------------------------------------------------------------
(* Database *)

Today(t) == t \div SecondsPerDay

(* position_size / price and quantity * price; QtyScale is a multiple of
   every price drawn *)
Quantity(size, price) == size * (QtyScale \div price)
Notional(quantity, price) == quantity \div (QtyScale \div price)

RECURSIVE SumNotional(_, _)
SumNotional(trs, day) ==
    IF trs = <<>> THEN 0
    ELSE (IF Head(trs).day = day THEN Notional(Head(trs).quantity, Head(trs).price) ELSE 0)
         + SumNotional(Tail(trs), day)

get_daily_trades(trs, t) == SumNotional(trs, Today(t))

IsOpen(p) == p.status = "open"

(* SELECT * FROM positions, without the status filter *)
get_all_positions(ps) == ps

get_active_positions(ps) == SelectSeq(ps, IsOpen)

(* has_position counting the rows of the asset whatever their status *)
has_position_any_status(ps, asset_id) ==
    \E n \in 1..Len(ps) : ps[n].asset_id = asset_id

has_position(ps, asset_id) ==
    \E n \in 1..Len(ps) : ps[n].asset_id = asset_id /\ ps[n].status = "open"

(* get_asset finding a row for every id *)
get_asset_any_id(rows, asset_id) == TRUE

get_asset(rows, asset_id) == asset_id \in rows

log_trade(trs, asset_id, action, quantity, price, t) ==
    Append(trs, [id |-> Len(trs) + 1, asset_id |-> asset_id, action |-> action,
                 quantity |-> quantity, price |-> price, day |-> Today(t)])

(* set_stop_loss_take_profit updating no row *)
set_stop_loss_take_profit_no_row(ps, asset_id, stop_loss, take_profit) == ps

set_stop_loss_take_profit(ps, asset_id, stop_loss, take_profit) ==
    [n \in 1..Len(ps) |->
        IF ps[n].asset_id = asset_id /\ ps[n].status = "open"
        THEN [ps[n] EXCEPT !.stop_loss = stop_loss, !.take_profit = take_profit]
        ELSE ps[n]]

update_position_price(ps, position_id, current_price) ==
    IF current_price # 0
    THEN [n \in 1..Len(ps) |->
            IF ps[n].id = position_id THEN [ps[n] EXCEPT !.current_price = current_price]
            ELSE ps[n]]
    ELSE ps

update_position_closed(ps, position_id) ==
    [n \in 1..Len(ps) |->
        IF ps[n].id = position_id THEN [ps[n] EXCEPT !.status = "closed"] ELSE ps[n]]

_create_position(ps, trade_id, asset_id, quantity, entry_price) ==
    Append(ps, [id |-> Len(ps) + 1, trade_id |-> trade_id, asset_id |-> asset_id,
                quantity |-> quantity, entry_price |-> entry_price,
                current_price |-> entry_price, stop_loss |-> NULL,
                take_profit |-> NULL, status |-> "open"])

-----------------------------------------------------------------------------
(* DataFetcher *)

CacheHit(c, asset_id, t) ==
    /\ c[asset_id] # NoEntry
    /\ (t - c[asset_id].t) % SecondsPerDay < CACHE_TTL

(* Outcomes of the port call behind fetch_data: a price, or "fail" (an
   exception, or an empty answer, both of which make fetch_data return None) *)
PortOutcomes == Prices \cup {NULL}

(* session.get on a closed session raises RuntimeError, which fetch_data
   catches like any failure of the port: a fetch that misses the cache has
   no answer *)
SessionGetRaises(c, asset_id, t) == sys.session_closed /\ ~CacheHit(c, asset_id, t)

(* fetch_data answering with the entry it holds when the port fails *)
fetch_data_serving_stale(c, asset_id, t, o) ==
    IF CacheHit(c, asset_id, t) \/ (o = NULL /\ c[asset_id] # NoEntry)
    THEN c[asset_id].price
    ELSE o

(* fetch_data: the value returned for asset_id when the port would answer o *)
fetch_data(c, asset_id, t, o) ==
    IF CacheHit(c, asset_id, t) THEN c[asset_id].price ELSE o

(* fetch_data: the cache afterwards *)
fetch_cache(c, asset_id, t, o) ==
    IF CacheHit(c, asset_id, t) \/ o = NULL THEN c
    ELSE [c EXCEPT ![asset_id] = [t |-> t, price |-> o]]

-----------------------------------------------------------------------------
(* RiskManager *)

(* calculate_position_size without the ceiling of 0.5 on the volatility *)
calculate_position_size_any_volatility(confidence, vol) ==
    Min((DAILY_INVESTMENT_EUR * (Eur \div 1000) * confidence * (100 - vol)) \div 10,
        MAX_SINGLE_INVESTMENT_EUR * Eur)

(* volatility is in hundredths *)
calculate_position_size(confidence, vol) ==
    Min((DAILY_INVESTMENT_EUR * (Eur \div 1000) * confidence * (100 - Min(50, vol))) \div 10,
        MAX_SINGLE_INVESTMENT_EUR * Eur)

check_daily_limit(trs, t) == Max(0, MAX_DAILY_INVESTMENT_EUR * Eur - get_daily_trades(trs, t))

(* check_asset_concentration accepting every amount *)
check_asset_concentration_any_amount(amount, pv) == TRUE

(* amount / portfolio_value <= 0.15 *)
check_asset_concentration(amount, pv) == amount <= 15 * pv * (Eur \div 100)

(* BASE_STOP_LOSS_PCT 0.05 x adjustment, BASE_TAKE_PROFIT_PCT 0.12 x adjustment,
   in 1/10000 *)
dynamic_stop_loss(asset_type) ==
    CASE asset_type = "crypto" -> 35
      [] asset_type = "stocks" -> 30
      [] asset_type = "etf" -> 25
      [] asset_type = "precious_metals" -> 20
      [] OTHER -> 500

dynamic_take_profit(asset_type) ==
    CASE asset_type = "crypto" -> 1560
      [] asset_type = "stocks" -> 1440
      [] asset_type = "etf" -> 1320
      [] asset_type = "precious_metals" -> 1200
      [] OTHER -> 1200

StopLossLevel(price, asset_type) == (price * (10000 - dynamic_stop_loss(asset_type))) \div 10000
TakeProfitLevel(price, asset_type) == (price * (10000 + dynamic_take_profit(asset_type))) \div 10000

-----------------------------------------------------------------------------
(* Analyzer and PortfolioManager *)

(* A descending sort that puts an element before its equals *)
RECURSIVE InsertDescUnstable(_, _)
InsertDescUnstable(sorted, x) ==
    IF sorted = <<>> THEN <<x>>
    ELSE IF Head(sorted).composite_score > x.composite_score
         THEN <<Head(sorted)>> \o InsertDescUnstable(Tail(sorted), x)
         ELSE <<x>> \o sorted

(* sorted(..., key=composite_score, reverse=True): stable, descending *)
RECURSIVE InsertDesc(_, _)
InsertDesc(sorted, x) ==
    IF sorted = <<>> THEN <<x>>
    ELSE IF Head(sorted).composite_score >= x.composite_score
         THEN <<Head(sorted)>> \o InsertDesc(Tail(sorted), x)
         ELSE <<x>> \o sorted

RECURSIVE SortDesc(_, _)
SortDesc(acc, rest) ==
    IF rest = <<>> THEN acc ELSE SortDesc(InsertDesc(acc, Head(rest)), Tail(rest))

(* analyze_assets: score every fetched asset (score[id] stands for the
   analyzer's composite, which depends on a random sentiment), then rank *)
analyze_assets(assets_data, score) ==
    SortDesc(<<>>, [n \in 1..Len(assets_data) |->
                      [id |-> assets_data[n].id, price |-> assets_data[n].price,
                       composite_score |-> Min(100, score[assets_data[n].id])]])

SignalFor(asset, ps) ==
    IF asset.composite_score > entry_threshold
    THEN << [asset_id |-> asset.id, action |-> "BUY",
             confidence |-> Min(100, asset.composite_score), price |-> asset.price] >>
    ELSE IF asset.composite_score < exit_threshold /\ has_position(ps, asset.id)
    THEN << [asset_id |-> asset.id, action |-> "SELL",
             confidence |-> 100 - asset.composite_score, price |-> asset.price] >>
    ELSE <<>>

RECURSIVE generate_trade_signals(_, _)
generate_trade_signals(analysis_results, ps) ==
    IF analysis_results = <<>> THEN <<>>
    ELSE SignalFor(Head(analysis_results), ps)
         \o generate_trade_signals(Tail(analysis_results), ps)

-----------------------------------------------------------------------------
(* Scheduler and trading_cycle *)

(* The frame of one run of trading_cycle: where it is, and the locals that
   are still read: the fetched assets, the signals and the open positions
   not yet iterated over, and the running budget of execute_signals.
   budget0 and placed0 record the budget and the number of venue orders at
   the start of execute_signals (history, never read by an action). *)
IdleFrame ==
    [pc |-> "idle", assets_data |-> <<>>, signals |-> <<>>, daily_limit |-> 0,
     mon |-> <<>>, budget0 |-> 0, placed0 |-> 0, portfolio_value |-> 0]

Running == {i \in Slots : cyc[i].pc # "idle"}

(* Config.TRADING_HOURS: days (0 = Monday) and start/end as seconds of the day *)
TRADING_HOURS(asset_type) ==
    IF asset_type \in {"stocks", "etf"}
    THEN [start |-> 8 * 3600, end |-> 22 * 3600, days |-> 0..4]
    ELSE [start |-> 0, end |-> 23 * 3600 + 59 * 60, days |-> 0..6]

(* is_trading_hours answering True whatever the time *)
is_trading_hours_always(t) == TRUE

(* is_trading_hours: some watchlist asset's window holds the current weekday
   and time; the clock starts on a Monday at 00:00 *)
is_trading_hours(t) ==
    \E n \in 1..Len(watchlist) :
        LET h == TRADING_HOURS(watchlist[n].asset_type) IN
        /\ (t \div SecondsPerDay) % 7 \in h.days
        /\ h.start <= t % SecondsPerDay
        /\ t % SecondsPerDay <= h.end

WatchAsset(asset_id) ==
    LET n == CHOOSE n \in 1..Len(watchlist) : watchlist[n].id = asset_id IN watchlist[n]

NoSizing == [confidence |-> NULL, volatility |-> NULL, daily_limit |-> NULL,
             position_size |-> NULL, portfolio_value |-> NULL]

(* TradingSystem(mode="continuous") after __init__: the scheduler started by
   setup_scheduler, the aiohttp session and the sqlite connection open *)
Started == [running |-> TRUE, session_closed |-> FALSE, conn_closed |-> FALSE]

Init ==
    /\ now = 0
    /\ ticks = 0
    /\ faults = 0
    /\ watchlist \in {<<>>, Watchlist}
    /\ bound \in BOOLEAN
    /\ assets \in StoreAssets
    /\ cache = [a \in WatchIds |-> NoEntry]
    /\ trades = <<>>
    /\ positions = <<>>
    /\ placed = <<>>
    /\ cyc = [i \in Slots |-> IdleFrame]
    /\ sent = <<>>
    /\ saved = 0
    /\ last = "init"
    /\ sys = Started
    /\ ranking = <<>>
    /\ sizing = NoSizing

(* What a step leaves for observation (the analysis leaves its ranking as
   well, any other step none): its outcome, and the messages it
   handed to send_notification ("limit": the day's budget is used up;
   "trade": execute_trade's report of an executed trade; "closed": the
   monitor's stop-loss / take-profit report); the step writes no row of
   table system_status *)
SaysSized(outcome, notes, sz) ==
    /\ last' = outcome
    /\ sent' = notes
    /\ saved' = 0
    /\ ranking' = <<>>
    /\ sizing' = sz

Says(outcome, notes) == SaysSized(outcome, notes, NoSizing)

(* The clock advances *)
Tick ==
    /\ ticks < MaxTicks
    /\ \E d \in TickSteps : now' = now + d
    /\ ticks' = ticks + 1
    /\ sent' = <<>>
    /\ saved' = 0
    /\ ranking' = <<>>
    /\ sizing' = NoSizing
    /\ UNCHANGED <<faults, watchlist, sys, bound, assets, cache, trades, positions, placed,
                 cyc, last>>

(* The interval trigger of the job added with add_job(self.trading_cycle,
   'interval', minutes=15): the scheduler starts the job unless max_instances
   (default 1) instances of it are running, in which case this run is skipped *)
Trigger ==
    /\ sys.running
    /\ UNCHANGED <<now, ticks, faults, watchlist, sys, bound, assets, cache, trades, positions, placed>>
    /\ IF Cardinality(Running) >= max_instances
       THEN /\ Says("skipped", <<>>)
            /\ UNCHANGED cyc
       ELSE LET i == CHOOSE i \in Slots \ Running : \A j \in Slots \ Running : i <= j IN
            IF is_trading_hours(now)
            THEN /\ cyc' = [cyc EXCEPT ![i] = [IdleFrame EXCEPT !.pc = "fetch"]]
                 /\ Says("start", <<>>)
            ELSE /\ Says("closed_hours", <<>>)
                 /\ UNCHANGED cyc

(* fetch_assets_data giving up at the first asset whose fetch fails *)
RECURSIVE FetchedUntilFailure(_, _, _)
FetchedUntilFailure(n, c, o) ==
    IF n > Len(watchlist) THEN <<>>
    ELSE LET a == watchlist[n].id
             p == fetch_data(c, a, now, o[a]) IN
         IF p = NULL THEN <<>>
         ELSE << [id |-> a, price |-> p] >> \o FetchedUntilFailure(n + 1, c, o)

(* fetch_assets_data: one fetch_data per watchlist asset, gathered *)
RECURSIVE FetchedFrom(_, _, _)
FetchedFrom(n, c, o) ==
    IF n > Len(watchlist) THEN <<>>
    ELSE LET a == watchlist[n].id
             p == fetch_data(c, a, now, o[a]) IN
         (IF p = NULL THEN <<>> ELSE << [id |-> a, price |-> p] >>)
         \o FetchedFrom(n + 1, c, o)

FetchAssetsData(i) ==
    /\ cyc[i].pc = "fetch"
    /\ \E o \in [WatchIds -> PortOutcomes] :
        /\ \A a \in WatchIds : CacheHit(cache, a, now) => o[a] = cache[a].price
        /\ \A a \in WatchIds : SessionGetRaises(cache, a, now) => o[a] = NULL
        /\ cyc' = [cyc EXCEPT ![i].pc = "analyze",
                              ![i].assets_data = FetchedFrom(1, cache, o)]
        /\ cache' = [a \in WatchIds |-> fetch_cache(cache, a, now, o[a])[a]]
        /\ Says("fetch", <<>>)
    /\ UNCHANGED <<now, ticks, faults, watchlist, sys, bound, assets, trades, positions, placed>>

(* analyze_assets, generate_trade_signals and the head of execute_signals,
   where the local portfolio_value is set to a value of pvs *)
AnalyzeWith(i, pvs) ==
    /\ cyc[i].pc = "analyze"
    /\ \E score \in [WatchIds -> Composites], pv \in pvs :
        LET results == analyze_assets(cyc[i].assets_data, score)
            signals == generate_trade_signals(results, positions) IN
        /\ cyc' = [cyc EXCEPT ![i].pc = "execute", ![i].assets_data = <<>>,
                              ![i].signals = signals,
                              ![i].daily_limit = check_daily_limit(trades, now),
                              ![i].budget0 = check_daily_limit(trades, now),
                              ![i].placed0 = Len(placed),
                              ![i].portfolio_value = pv]
        /\ last' = "analyze"
        /\ sent' = IF check_daily_limit(trades, now) <= 0 THEN <<"limit">> ELSE <<>>
        /\ saved' = 0
        /\ ranking' = results
        /\ sizing' = NoSizing
    /\ UNCHANGED <<now, ticks, faults, watchlist, sys, bound, assets, cache, trades, positions, placed>>

(* portfolio_value = 1000 (line 957) *)
Analyze(i) == AnalyzeWith(i, {portfolio_value})

-----------------------------------------------------------------------------
(* TradeExecutor *)

Truthy(x) == x # NULL /\ x # 0

Outcomes(allowed) == IF allowed THEN BOOLEAN ELSE {TRUE}

(* trade_id INTEGER NOT NULL of table positions, with the constraint left out *)
NotNullUnenforced(x) == TRUE

(* trade_id INTEGER NOT NULL of table positions: the INSERT of
   _create_position is rejected for a NULL trade_id *)
NotNull(x) == x # NULL

(* execute_trade recording the Trade although the venue refused the order *)
execute_trade_logging_refused(trs, ps, pl, asset_id, platform, action, quantity, price, t, orderOk, logOk) ==
    [ret |-> "false", trades |-> log_trade(trs, asset_id, action, quantity, price, t),
     positions |-> ps, placed |-> pl]

(* execute_trade marking the asset's positions closed on a SELL *)
execute_trade_closing_on_sell(trs, ps, pl, asset_id, platform, action, quantity, price, t, orderOk, logOk) ==
    LET success == IF platform \in {"Binance", "Bitpanda"} THEN orderOk ELSE FALSE
        trs1 == IF logOk THEN log_trade(trs, asset_id, action, quantity, price, t) ELSE trs
        trade_id == IF logOk THEN Len(trs1) ELSE NULL
        pl1 == Append(pl, [asset_id |-> asset_id, action |-> action,
                           quantity |-> quantity, price |-> price]) IN
    IF quantity <= 0 \/ ~success
    THEN [ret |-> "false", trades |-> trs, positions |-> ps, placed |-> pl]
    ELSE IF action = "BUY" /\ ~NotNull(trade_id)
    THEN [ret |-> "raise", trades |-> trs1, positions |-> ps, placed |-> pl1]
    ELSE [ret |-> "true", trades |-> trs1,
          positions |-> IF action = "BUY"
                        THEN _create_position(ps, trade_id, asset_id, quantity, price)
                        ELSE [n \in 1..Len(ps) |->
                                IF ps[n].asset_id = asset_id
                                THEN [ps[n] EXCEPT !.status = "closed"] ELSE ps[n]],
          placed |-> pl1]

(* execute_trade: the venue accepts the order or not (orderOk); the insert of
   log_trade goes through, or fails and is caught (logOk).  ret is "true",
   "false", or "raise": the NOT NULL trade_id of _create_position rejecting
   the None that log_trade returned. *)
execute_trade(trs, ps, pl, asset_id, platform, action, quantity, price, t, orderOk, logOk) ==
    LET success == IF platform \in {"Binance", "Bitpanda"} THEN orderOk ELSE FALSE
        trs1 == IF logOk THEN log_trade(trs, asset_id, action, quantity, price, t) ELSE trs
        trade_id == IF logOk THEN Len(trs1) ELSE NULL
        pl1 == Append(pl, [asset_id |-> asset_id, action |-> action,
                           quantity |-> quantity, price |-> price]) IN
    IF quantity <= 0 \/ ~success
    THEN [ret |-> "false", trades |-> trs, positions |-> ps, placed |-> pl]
    ELSE IF action = "BUY" /\ ~NotNull(trade_id)
    THEN [ret |-> "raise", trades |-> trs1, positions |-> ps, placed |-> pl1]
    ELSE [ret |-> "true", trades |-> trs1,
          positions |-> IF action = "BUY"
                        THEN _create_position(ps, trade_id, asset_id, quantity, price)
                        ELSE ps,
          placed |-> pl1]

(* An exception leaves trading_cycle: the job instance ends *)
Raised(i, what, notes) ==
    /\ cyc' = [cyc EXCEPT ![i] = IdleFrame]
    /\ Says(what, notes)

(* position_size = min(position_size, daily_limit), with the cap left out *)
cap_dropped(position_size, daily_limit) == position_size

(* position_size = min(position_size, daily_limit) *)
cap_to_budget(position_size, daily_limit) == Min(position_size, daily_limit)

(* daily_limit -= position_size, with the charge left out *)
charge_dropped(daily_limit, position_size) == daily_limit

(* daily_limit -= position_size *)
charge(daily_limit, position_size) == daily_limit - position_size

(* execute_signals going on whatever the budget *)
HasBudgetAlways(daily_limit) == TRUE

(* The tests of lines 953 and 960: execute_signals returns, or leaves its
   loop, when daily_limit <= 0 *)
HasBudget(daily_limit) == daily_limit > 0

(* One iteration of the loop of execute_signals; with failing, writes to the
   store may fail.  Once MaxTrades orders have been accepted the venue
   refuses every further order. *)
ExecuteSignalStep(i, failing) ==
    /\ cyc[i].pc = "execute"
    /\ cyc[i].signals # <<>>
    /\ HasBudget(cyc[i].daily_limit)
    /\ LET signal == Head(cyc[i].signals)
           asset == WatchAsset(signal.asset_id)
           sized == calculate_position_size(signal.confidence, volatility)
           position_size == cap_to_budget(sized, cyc[i].daily_limit)
           price == signal.price
           quantity == Quantity(position_size, price)
           stop_loss == StopLossLevel(price, asset.asset_type)
           take_profit == TakeProfitLevel(price, asset.asset_type)
           done == IF position_size < sized THEN "executed_capped" ELSE "executed"
           sz == [confidence |-> signal.confidence, volatility |-> volatility,
                  daily_limit |-> cyc[i].daily_limit, position_size |-> position_size,
                  portfolio_value |-> cyc[i].portfolio_value] IN
       IF ~check_asset_concentration(position_size, cyc[i].portfolio_value)
       THEN /\ cyc' = [cyc EXCEPT ![i].signals = Tail(@)]
            /\ SaysSized("concentration", <<>>, sz)
            /\ UNCHANGED <<faults, cache, trades, positions, placed>>
       ELSE \E orderOk \in BOOLEAN, logOk \in Outcomes(failing), setOk \in Outcomes(failing) :
            LET r == execute_trade(trades, positions, placed, asset.id, asset.platform,
                                   signal.action, quantity, price, now, orderOk, logOk)
                nfail == (IF logOk THEN 0 ELSE 1) + (IF setOk THEN 0 ELSE 1) IN
            /\ r.ret # "false" => Len(placed) < MaxTrades
            /\ r.ret = "false" => logOk
            /\ (r.ret # "true" \/ signal.action # "BUY") => setOk
            /\ faults + nfail <= MaxFaults
            /\ faults' = faults + nfail
            /\ trades' = r.trades
            /\ placed' = r.placed
            /\ UNCHANGED cache
            /\ CASE r.ret = "false" ->
                      /\ positions' = r.positions
                      /\ cyc' = [cyc EXCEPT ![i].signals = Tail(@)]
                      /\ SaysSized("order_failed", <<>>, sz)
                 [] r.ret = "raise" ->
                      /\ positions' = r.positions
                      /\ Raised(i, "create_position", <<>>)
                 [] r.ret = "true" /\ signal.action = "BUY" /\ ~setOk ->
                      /\ positions' = r.positions
                      /\ Raised(i, "set_stop_loss_take_profit", <<"trade">>)
                 [] r.ret = "true" /\ signal.action = "BUY" /\ setOk ->
                      /\ positions' = set_stop_loss_take_profit(r.positions, asset.id,
                                                                stop_loss, take_profit)
                      /\ cyc' = [cyc EXCEPT ![i].signals = Tail(@),
                                            ![i].daily_limit = charge(@, position_size)]
                      /\ SaysSized(done, <<"trade">>, sz)
                 [] r.ret = "true" /\ signal.action = "SELL" ->
                      /\ positions' = r.positions
                      /\ cyc' = [cyc EXCEPT ![i].signals = Tail(@),
                                            ![i].daily_limit = charge(@, position_size)]
                      /\ SaysSized(done, <<"trade">>, sz)
    /\ UNCHANGED <<now, ticks, watchlist, sys, bound, assets>>
ExecuteSignal(i) == ExecuteSignalStep(i, FALSE)

(* execute_signals returns (budget used up, or no signal left) and
   close_positions reads the open positions *)
StartMonitor(i) ==
    /\ cyc[i].pc = "execute"
    /\ cyc[i].signals = <<>> \/ ~HasBudget(cyc[i].daily_limit)
    /\ cyc' = [cyc EXCEPT ![i] = [IdleFrame EXCEPT !.pc = "monitor",
                                               !.mon = get_active_positions(positions)]]
    /\ Says("monitor", <<>>)
    /\ UNCHANGED <<now, ticks, faults, watchlist, sys, bound, assets, cache, trades, positions, placed>>

(* One iteration of the loop of close_positions; with failing, writes to the
   store may fail (log_trade and update_position catch the error) *)
MonitorStepWith(i, failing) ==
    /\ cyc[i].pc = "monitor"
    /\ cyc[i].mon # <<>>
    /\ UNCHANGED <<now, ticks, watchlist, sys, bound, assets>>
    /\ LET row == Head(cyc[i].mon) IN
       IF ~get_asset(assets, row.asset_id)
       THEN /\ cyc' = [cyc EXCEPT ![i].mon = Tail(@)]
            /\ Says("no_asset", <<>>)
            /\ UNCHANGED <<faults, cache, trades, positions, placed>>
       ELSE IF ~bound
       THEN /\ Raised(i, "data_fetcher", <<>>)
            /\ UNCHANGED <<faults, cache, trades, positions, placed>>
       ELSE \E o \in PortOutcomes, orderOk \in BOOLEAN,
               logOk \in Outcomes(failing), closeOk \in Outcomes(failing) :
            LET current_price == fetch_data(cache, row.asset_id, now, o)
                hit == /\ current_price # NULL
                       /\ \/ Truthy(row.stop_loss) /\ current_price <= row.stop_loss
                          \/ Truthy(row.take_profit) /\ current_price >= row.take_profit
                ps1 == update_position_price(positions, row.id, current_price)
                r == execute_trade(trades, ps1, placed, row.asset_id, "Binance", "SELL",
                                   row.quantity, current_price, now, orderOk, logOk)
                nfail == (IF logOk THEN 0 ELSE 1) + (IF closeOk THEN 0 ELSE 1) IN
            /\ CacheHit(cache, row.asset_id, now) => o = cache[row.asset_id].price
            /\ SessionGetRaises(cache, row.asset_id, now) => o = NULL
            /\ ~hit => orderOk /\ closeOk
            /\ (~hit \/ ~orderOk) => logOk
            /\ (hit /\ orderOk) => Len(placed) < MaxTrades
            /\ faults + nfail <= MaxFaults
            /\ faults' = faults + nfail
            /\ cache' = fetch_cache(cache, row.asset_id, now, o)
            /\ cyc' = [cyc EXCEPT ![i].mon = Tail(@)]
            /\ IF current_price = NULL
               THEN /\ Says("no_price", <<>>)
                    /\ UNCHANGED <<trades, positions, placed>>
               ELSE IF hit
               THEN /\ trades' = r.trades
                    /\ placed' = r.placed
                    /\ positions' = IF closeOk THEN update_position_closed(r.positions, row.id)
                                    ELSE r.positions
                    /\ Says("closed", (IF r.ret = "true" THEN <<"trade">> ELSE <<>>) \o <<"closed">>)
               ELSE /\ positions' = ps1
                    /\ Says("price", <<>>)
                    /\ UNCHANGED <<trades, placed>>

MonitorStep(i) == MonitorStepWith(i, FALSE)

(* update_system_status leaving table system_status as it is *)
save_system_status_skipped(rows) == rows

(* INSERT INTO system_status: one row more *)
save_system_status(rows) == rows + 1

(* close_positions returns; update_system_status writes the snapshot and the
   cycle ends.  save_system_status does not catch sqlite3.Error: with
   failing, the INSERT may raise, and the exception leaves trading_cycle *)
UpdateSystemStatusWith(i, failing) ==
    /\ cyc[i].pc = "monitor"
    /\ cyc[i].mon = <<>>
    /\ \E saveOk \in Outcomes(failing) :
          /\ faults + (IF saveOk THEN 0 ELSE 1) <= MaxFaults
          /\ faults' = faults + (IF saveOk THEN 0 ELSE 1)
          /\ IF saveOk
             THEN /\ cyc' = [cyc EXCEPT ![i] = IdleFrame]
                  /\ last' = "completed"
                  /\ sent' = <<>>
                  /\ saved' = save_system_status(0)
                  /\ ranking' = <<>>
                  /\ sizing' = NoSizing
             ELSE Raised(i, "save_system_status", <<>>)
    /\ UNCHANGED <<now, ticks, watchlist, sys, bound, assets, cache, trades, positions, placed>>

UpdateSystemStatus(i) == UpdateSystemStatusWith(i, FALSE)

(* execute_trade invoked once more with the arguments of the call that has
   just succeeded in this cycle (a caller retrying the call) *)
ReExecute(i) ==
    /\ cyc[i].pc = "execute"
    /\ last \in {"executed", "executed_capped"}
    /\ Len(placed) < MaxTrades
    /\ \E orderOk \in BOOLEAN :
         LET e == placed[Len(placed)]
             r == execute_trade(trades, positions, placed, e.asset_id,
                                WatchAsset(e.asset_id).platform, e.action, e.quantity,
                                e.price, now, orderOk, TRUE) IN
         /\ trades' = r.trades
         /\ positions' = r.positions
         /\ placed' = r.placed
         /\ Says(IF r.ret = "true" THEN "retried" ELSE "retry_failed",
                 IF r.ret = "true" THEN <<"trade">> ELSE <<>>)
    /\ UNCHANGED <<now, ticks, faults, watchlist, sys, bound, assets, cache, cyc>>

Next ==
    \/ Tick
    \/ Trigger
    \/ \E i \in Slots : FetchAssetsData(i)
    \/ \E i \in Slots : Analyze(i)
    \/ \E i \in Slots : ExecuteSignal(i)
    \/ \E i \in Slots : StartMonitor(i)
    \/ \E i \in Slots : MonitorStep(i)
    \/ \E i \in Slots : UpdateSystemStatus(i)

Spec == Init /\ [][Next]_vars

(* The cycle with a caller that retries execute_trade *)
NextRetry ==
    \/ Next
    \/ \E i \in Slots : ReExecute(i)

SpecRetry == Init /\ [][NextRetry]_vars

(* The cycle with store writes that may fail *)
NextFaults ==
    \/ Tick
    \/ Trigger
    \/ \E i \in Slots : FetchAssetsData(i)
    \/ \E i \in Slots : Analyze(i)
    \/ \E i \in Slots : ExecuteSignalStep(i, TRUE)
    \/ \E i \in Slots : StartMonitor(i)
    \/ \E i \in Slots : MonitorStepWith(i, TRUE)
    \/ \E i \in Slots : UpdateSystemStatusWith(i, TRUE)

SpecFaults == Init /\ [][NextFaults]_vars

(* A port call of fetch_assets_data has not answered yet: the cycle stays
   suspended in asyncio.gather *)
AwaitFetch(i) ==
    /\ cyc[i].pc = "fetch"
    /\ Says("awaiting", <<>>)
    /\ UNCHANGED <<now, ticks, faults, watchlist, sys, bound, assets, cache, trades, positions,
                   placed, cyc>>

(* The steps of run i of trading_cycle *)
CycleStep(i) ==
    \/ FetchAssetsData(i)
    \/ Analyze(i)
    \/ ExecuteSignal(i)
    \/ StartMonitor(i)
    \/ MonitorStep(i)
    \/ UpdateSystemStatus(i)

NextLive ==
    \/ Tick
    \/ Trigger
    \/ \E i \in Slots : AwaitFetch(i)
    \/ \E i \in Slots : CycleStep(i)

(* The cycle on the event loop: a coroutine that can run does run, and every
   port call ends, by an answer or by an exception; for the session.get of
   the fetchers this rests on the total timeout that
   aiohttp.ClientSession() applies by default (line 293 sets none) *)
SpecLive == Init /\ [][NextLive]_vars /\ \A i \in Slots : WF_vars(CycleStep(i))

(* shutdown, reached from the finally of main when the wait of continuous
   mode is interrupted.  Lines 1058-1059: the DataFetcher's session is closed
   first; the await is a point where the event loop may run the scheduler
   and the cycles *)
ShutdownCloseSession ==
    /\ sys = Started
    /\ sys' = [sys EXCEPT !.session_closed = TRUE]
    /\ Says("shutdown_session", <<>>)
    /\ UNCHANGED <<now, ticks, faults, watchlist, bound, assets, cache, trades, positions,
                   placed, cyc>>

(* Lines 1061-1066, without a suspension point: scheduler.shutdown() and
   db.conn.close().  Nothing waits for a run of trading_cycle that is under
   way: the executor's shutdown cancels it where it is suspended *)
ShutdownRelease ==
    /\ sys.session_closed
    /\ ~sys.conn_closed
    /\ sys' = [sys EXCEPT !.running = FALSE, !.conn_closed = TRUE]
    /\ cyc' = [i \in Slots |-> IdleFrame]
    /\ Says("shutdown", <<>>)
    /\ UNCHANGED <<now, ticks, faults, watchlist, bound, assets, cache, trades, positions,
                   placed>>

(* The cycle in a process that is shut down *)
NextShutdown ==
    \/ Tick
    \/ Trigger
    \/ \E i \in Slots : FetchAssetsData(i)
    \/ \E i \in Slots : Analyze(i)
    \/ \E i \in Slots : ExecuteSignal(i)
    \/ \E i \in Slots : StartMonitor(i)
    \/ \E i \in Slots : MonitorStep(i)
    \/ \E i \in Slots : UpdateSystemStatus(i)
    \/ ShutdownCloseSession
    \/ ShutdownRelease

SpecShutdown == Init /\ [][NextShutdown]_vars

(* The cycle over a watchlist of two assets of the same venue *)
InitRanked ==
    /\ now = 0
    /\ ticks = 0
    /\ faults = 0
    /\ watchlist = WatchlistCrypto
    /\ bound \in BOOLEAN
    /\ assets \in StoreAssets
    /\ cache = [a \in WatchIds |-> NoEntry]
    /\ trades = <<>>
    /\ positions = <<>>
    /\ placed = <<>>
    /\ cyc = [i \in Slots |-> IdleFrame]
    /\ sent = <<>>
    /\ saved = 0
    /\ last = "init"
    /\ sys = Started
    /\ ranking = <<>>
    /\ sizing = NoSizing

SpecRanked == InitRanked /\ [][Next]_vars

(* The sizing of a signal on its own: lines 968-974 of execute_signals
   applied to a confidence, a volatility (hundredths; even, so that the
   amount is a whole number of units) and a remaining budget *)
Confidences == 0..100
Volatilities == {0, 20, 50, 80}
Budgets == {0, Eur, 2 * Eur, MAX_DAILY_INVESTMENT_EUR * Eur}

SizeSignal ==
    /\ sizing = NoSizing
    /\ \E confidence \in Confidences, vol \in Volatilities, daily_limit \in Budgets :
          sizing' = [confidence |-> confidence, volatility |-> vol,
                    daily_limit |-> daily_limit,
                    position_size |->
                        cap_to_budget(calculate_position_size(confidence, vol), daily_limit),
                    portfolio_value |-> portfolio_value]
    /\ UNCHANGED <<now, ticks, faults, watchlist, sys, bound, assets, cache, trades, positions,
                   placed, cyc, sent, saved, last, ranking>>

SpecSizing == Init /\ [][SizeSignal]_vars

(* The cycle with a portfolio value that may be small: line 957 stands for
   a value to be read from the store; 15 puts the largest sized amount (2.4)
   above 0.15 of the portfolio and the SELL amounts below *)
PortfolioValues == {15, portfolio_value}

NextConcentration ==
    \/ Tick
    \/ Trigger
    \/ \E i \in Slots : FetchAssetsData(i)
    \/ \E i \in Slots : AnalyzeWith(i, PortfolioValues)
    \/ \E i \in Slots : ExecuteSignal(i)
    \/ \E i \in Slots : StartMonitor(i)
    \/ \E i \in Slots : MonitorStep(i)
    \/ \E i \in Slots : UpdateSystemStatus(i)

SpecConcentration == Init /\ [][NextConcentration]_vars

-----------------------------------------------------------------------------
(* Properties *)

(* The quotients the code computes in floating point are whole numbers in
   the model's units, on every order placed and every level set *)
ExactArithmetic ==
    /\ \A n \in 1..Len(placed) :
          Notional(placed[n].quantity, placed[n].price) * (QtyScale \div placed[n].price)
            = placed[n].quantity
    /\ \A n \in 1..Len(positions) :
          Truthy(positions[n].stop_loss)
            => \E a \in WatchIds :
                 \E price \in Prices :
                   /\ positions[n].stop_loss * 10000
                        = price * (10000 - dynamic_stop_loss(WatchAsset(a).asset_type))
                   /\ positions[n].take_profit * 10000
                        = price * (10000 + dynamic_take_profit(WatchAsset(a).asset_type))

RECURSIVE SumPlaced(_)
SumPlaced(pl) ==
    IF pl = <<>> THEN 0
    ELSE Notional(Head(pl).quantity, Head(pl).price) + SumPlaced(Tail(pl))

(* The venue orders accepted since execute_signals of run i started *)
PlacedInPass(i) == SubSeq(placed, cyc[i].placed0 + 1, Len(placed))

\* C1: after any sequence of trading cycles every asset has at most one
\* Position with state Open (a BUY for an asset that already has an Open
\* Position opens no second one).
C1_AtMostOneOpenPerAsset ==
    \A m, n \in 1..Len(positions) :
        ( /\ positions[m].status = "open"
          /\ positions[n].status = "open"
          /\ positions[m].asset_id = positions[n].asset_id ) => m = n

C3_BudgetNeverNegative ==
    \A i \in Slots :
        cyc[i].pc = "execute" =>
            /\ cyc[i].daily_limit >= 0
            /\ SumPlaced(PlacedInPass(i)) = cyc[i].budget0 - cyc[i].daily_limit
            /\ SumPlaced(PlacedInPass(i)) <= cyc[i].budget0

C3_Witness ==
    \E i \in Slots :
        /\ cyc[i].pc = "execute"
        /\ Len(PlacedInPass(i)) >= 1
        /\ cyc[i].daily_limit < cyc[i].budget0
        /\ cyc[i].daily_limit > 0

(* Run i is about to handle a signal whose sized amount is larger than the
   remaining budget *)
OverBudget(i) ==
    /\ cyc[i].pc = "execute"
    /\ cyc[i].signals # <<>>
    /\ cyc[i].daily_limit > 0
    /\ calculate_position_size(Head(cyc[i].signals).confidence, volatility)
         > cyc[i].daily_limit

C5_RetryPlacesOnce ==
    \A i \in Slots :
        cyc[i].pc = "execute" =>
            \A m, n \in 1..Len(PlacedInPass(i)) :
                ( /\ PlacedInPass(i)[m].asset_id = PlacedInPass(i)[n].asset_id
                  /\ PlacedInPass(i)[m].action = PlacedInPass(i)[n].action ) => m = n

\* C6: no two trading cycles are ever in progress at the same time; a trigger
\* that arrives while a cycle is running is skipped and starts nothing.
C6_NoConcurrentCycles ==
    /\ Cardinality(Running) <= 1
    /\ last = "skipped" => Cardinality(Running) = 1

C6_Witness ==
    /\ last = "skipped"
    /\ \E i \in Slots : cyc[i].pc = "execute" /\ cyc[i].signals # <<>>

(* stop_loss is set and p is at or below it, or take_profit is set and p is
   at or above it *)
Crossed(pos, p) ==
    \/ Truthy(pos.stop_loss) /\ p <= pos.stop_loss
    \/ Truthy(pos.take_profit) /\ p >= pos.take_profit

\* C7: a monitor pass that handles an Open Position of a known asset whose
\* current price is p closes the Position if and only if its stopLoss is set
\* and p <= stopLoss or its takeProfit is set and p >= takeProfit; otherwise
\* only its currentPrice is updated.
C7_CloseIffLevelCrossed ==
    [][\A i \in Slots :
          ( /\ cyc[i].pc = "monitor"
            /\ cyc[i].mon # <<>>
            /\ cyc'[i] # cyc[i]
            /\ get_asset(assets, Head(cyc[i].mon).asset_id)
            /\ CacheHit(cache, Head(cyc[i].mon).asset_id, now) )
          => LET n == Head(cyc[i].mon).id
                 p == cache[positions[n].asset_id].price IN
             /\ positions'[n].status = "closed" <=> Crossed(positions[n], p)
             /\ ~Crossed(positions[n], p)
                  => positions' = [positions EXCEPT ![n].current_price = p]]_vars

C9_ClosedIsTerminal ==
    [][/\ \A n \in 1..Len(positions) :
             positions[n].status = "closed"
                 => Len(positions') >= n /\ positions'[n] = positions[n]
       /\ \A i \in Slots :
             (cyc[i].pc = "monitor" /\ cyc[i].mon # <<>> /\ cyc'[i] # cyc[i]
              /\ placed' # placed)
                 => positions[Head(cyc[i].mon).id].status = "open"]_vars

C9_Witness ==
    \E n, m \in 1..Len(positions) :
        /\ n < m
        /\ positions[n].status = "closed"
        /\ positions[m].status = "open"
        /\ positions[m].asset_id = positions[n].asset_id
        /\ Truthy(positions[m].stop_loss)
        /\ positions[m].stop_loss # positions[n].stop_loss

\* C10: a fetch failure for one asset or an order failure for one signal does
\* not abort the cycle: the assets whose fetch succeeded are passed on to be
\* scored, and after a signal whose order is not placed the pass goes on with
\* the remaining signals; a fetch failure in the monitor goes on with the
\* remaining positions.
C10_FailuresDoNotAbort ==
    [][\A i \in Slots :
          /\ (cyc[i].pc = "fetch" /\ cyc'[i] # cyc[i])
                => /\ cyc'[i].pc = "analyze"
                   /\ \A a \in WatchIds :
                         CacheHit(cache', a, now)
                           <=> \E k \in 1..Len(cyc'[i].assets_data) :
                                  /\ cyc'[i].assets_data[k].id = a
                                  /\ cyc'[i].assets_data[k].price = cache'[a].price
          /\ ( /\ cyc[i].pc = "execute" /\ cyc'[i] # cyc[i]
               /\ cyc[i].signals # <<>> /\ cyc[i].daily_limit > 0
               /\ placed' = placed )
                => /\ cyc'[i].pc = "execute"
                   /\ cyc'[i].signals = Tail(cyc[i].signals)
                   /\ cyc'[i].daily_limit = cyc[i].daily_limit
                   /\ trades' = trades /\ positions' = positions
          /\ ( /\ cyc[i].pc = "monitor" /\ cyc'[i] # cyc[i] /\ cyc[i].mon # <<>>
               /\ bound /\ get_asset(assets, Head(cyc[i].mon).asset_id)
               /\ ~CacheHit(cache', Head(cyc[i].mon).asset_id, now) )
                => /\ cyc'[i].pc = "monitor"
                   /\ cyc'[i].mon = Tail(cyc[i].mon)
                   /\ trades' = trades /\ positions' = positions]_vars

C10_Witness ==
    \E i \in Slots :
        /\ cyc[i].pc = "analyze"
        /\ ~CacheHit(cache, 1, now)
        /\ Len(cyc[i].assets_data) = 1
        /\ cyc[i].assets_data[1].id = 2

(* Run i handles a signal that passes the concentration check and for which
   the venue accepts no order *)
OrderRefused(i) ==
    /\ cyc[i].pc = "execute"
    /\ cyc[i].signals # <<>>
    /\ cyc[i].daily_limit > 0
    /\ cyc'[i] # cyc[i]
    /\ check_asset_concentration(
           cap_to_budget(calculate_position_size(Head(cyc[i].signals).confidence,
                                                 volatility),
                         cyc[i].daily_limit),
           portfolio_value)
    /\ placed' = placed

\* C11: when the venue reports failure for a signal, the risk accounting is
\* unchanged: no Trade and no Position is written, the remaining daily budget
\* is not decreased and no stop-loss / take-profit is set.
C11_RefusedOrderLeavesLedger ==
    [][\A i \in Slots :
          OrderRefused(i)
              => /\ trades' = trades
                 /\ positions' = positions
                 /\ cyc'[i].daily_limit = cyc[i].daily_limit
                 /\ check_daily_limit(trades', now) = check_daily_limit(trades, now)]_vars

C11_Witness ==
    /\ last = "order_failed"
    /\ \E i \in Slots :
          /\ cyc[i].pc = "execute"
          /\ cyc[i].daily_limit = cyc[i].budget0
          /\ cyc[i].budget0 > 0
          /\ Len(positions) >= 1

(* The venue accepted an order in this step and no Trade row was written *)
OrderWithoutTrade ==
    /\ Len(placed') > Len(placed)
    /\ Len(trades') = Len(trades)

\* C12: whenever the venue order succeeds but the following Trade or Position
\* write fails, a critical alert is sent through the notification port, and
\* the execution is not reported as an ordinary executed trade.
C12_WriteFailureAlerts ==
    [][OrderWithoutTrade
          => /\ \E k \in 1..Len(sent') : sent'[k] = "alert"
             /\ \A k \in 1..Len(sent') : sent'[k] # "trade"]_vars

\* C13: in every reachable state every Position's trade_id identifies a
\* recorded Trade with action BUY and the Position's asset_id, also when the
\* Trade write fails during execute_trade.
C13_PositionReferencesBuyTrade ==
    \A n \in 1..Len(positions) :
        /\ positions[n].trade_id \in 1..Len(trades)
        /\ trades[positions[n].trade_id].id = positions[n].trade_id
        /\ trades[positions[n].trade_id].action = "BUY"
        /\ trades[positions[n].trade_id].asset_id = positions[n].asset_id

C13_Witness ==
    /\ last = "create_position"
    /\ Len(placed) > Len(trades)
    /\ placed[Len(placed)].action = "BUY"
    /\ Len(positions) >= 1

(* Some asset of the watchlist has a type whose configured window holds the
   current weekday and time of day *)
SomeWindowOpen ==
    \E a \in {watchlist[n] : n \in 1..Len(watchlist)} :
        /\ (now \div SecondsPerDay) % 7 \in TRADING_HOURS(a.asset_type).days
        /\ now % SecondsPerDay >= TRADING_HOURS(a.asset_type).start
        /\ now % SecondsPerDay <= TRADING_HOURS(a.asset_type).end

Fetched(i) == {cyc'[i].assets_data[k].id : k \in 1..Len(cyc'[i].assets_data)}

(* Run i takes the step from fetch to analysis *)
FetchStep(i) == cyc[i].pc = "fetch" /\ cyc'[i].pc = "analyze"

\* C15: fetch_data answers from the cache, without calling the port, only
\* for an entry younger than the 300-second TTL: the data of such an entry
\* is returned and the cache is left alone; for an entry of any age of 300
\* seconds or more (ages over a day included) data is returned only from a
\* port call, which replaces the entry with the new value at the current
\* time.
C15_StaleEntryRefetched ==
    [][\A i \in Slots : \A a \in WatchIds :
          (FetchStep(i) /\ cache[a] # NoEntry)
              => /\ now - cache[a].t < CACHE_TTL
                    => /\ a \in Fetched(i)
                       /\ cache'[a] = cache[a]
                 /\ (now - cache[a].t >= CACHE_TTL /\ a \in Fetched(i))
                    => cache'[a].t = now]_vars

\* C16: when the port call for a missing or stale cache entry fails,
\* fetch_data reports the asset as unavailable for the cycle (the stale value
\* is not served) and leaves the cache unchanged: after a fetch that called
\* the port, either the asset's data is the new value, cached at the current
\* time, or the asset is absent from the cycle's data and its cache entry is
\* what it was.
C16_FailedFetchUnavailable ==
    [][\A i \in Slots : \A a \in WatchIds :
          (FetchStep(i) /\ ~CacheHit(cache, a, now))
              => \/ /\ a \in Fetched(i)
                    /\ cache'[a].t = now
                    /\ \E k \in 1..Len(cyc'[i].assets_data) :
                          /\ cyc'[i].assets_data[k].id = a
                          /\ cyc'[i].assets_data[k].price = cache'[a].price
                 \/ /\ a \notin Fetched(i)
                    /\ cache'[a] = cache[a]]_vars

C16_Witness ==
    \E i \in Slots :
        /\ cyc[i].pc = "analyze"
        /\ cache[1] # NoEntry
        /\ now - cache[1].t >= CACHE_TTL
        /\ ~CacheHit(cache, 1, now)
        /\ \A k \in 1..Len(cyc[i].assets_data) : cyc[i].assets_data[k].id # 1

\* C17: every started cycle eventually completes (its run ends with the
\* status snapshot written), also when a data fetch is slow to answer.
C17_CycleCompletes ==
    \A i \in Slots :
        (cyc[i].pc = "fetch") ~> (cyc[i].pc = "idle" /\ last = "completed")

(* A resource of the cycle has been released: the DataFetcher's session or
   the store's connection is closed *)
Released == sys.session_closed \/ sys.conn_closed

(* The scheduler accepts no trigger and no run of trading_cycle is under way *)
Drained == ~sys.running /\ Running = {}

\* C18: the data-fetch session and the store connection are released only
\* once the scheduler has stopped accepting triggers and no cycle is in
\* flight, and no step of a cycle runs against a released resource.
C18_ShutdownDrains ==
    [][/\ Released' => Drained'
       /\ (\E i \in Slots : cyc[i].pc # "idle" /\ cyc'[i] # cyc[i] /\ last' # "shutdown")
              => ~Released]_vars

(* The step of trading_cycle that follows each step (lines 883-905) *)
FollowingStep ==
    [fetch |-> "analyze", analyze |-> "execute", execute |-> "monitor", monitor |-> "idle"]

(* Run i ends by returning from trading_cycle after its last statement *)
Completes(i) ==
    /\ cyc[i].pc = "monitor"
    /\ cyc[i].mon = <<>>
    /\ cyc'[i].pc = "idle"

\* C19: a run of the cycle goes through fetch, scoring and signal generation,
\* signal execution, the monitor pass and the status snapshot in that order:
\* a run moves only to the following step or ends, an order is placed only
\* in signal execution for the signal at the head of the generated list or
\* in the monitor pass for the position it is looking at, no other run being
\* under way, and exactly one snapshot row is written, by the last step of a
\* run that completes and by no other.
C19_StepsInOrder ==
    [][/\ \A i \in Slots :
            /\ (cyc[i].pc # "idle" /\ cyc'[i].pc # cyc[i].pc)
                  => cyc'[i].pc \in {FollowingStep[cyc[i].pc], "idle"}
            /\ cyc[i].pc = "execute" /\ cyc'[i].pc = "execute" /\ cyc'[i] # cyc[i]
                  => /\ cyc[i].signals # <<>>
                     /\ cyc'[i].signals = Tail(cyc[i].signals)
            /\ cyc[i].pc = "idle" => cyc'[i].pc \in {"idle", "fetch"}
       /\ placed' # placed
             => /\ Len(placed') = Len(placed) + 1
                /\ LET e == placed'[Len(placed')] IN
                   \E i \in Slots :
                      /\ \/ /\ cyc[i].pc = "execute"
                            /\ cyc[i].signals # <<>>
                            /\ Head(cyc[i].signals).asset_id = e.asset_id
                            /\ Head(cyc[i].signals).action = e.action
                         \/ /\ cyc[i].pc = "monitor"
                            /\ cyc[i].mon # <<>>
                            /\ Head(cyc[i].mon).asset_id = e.asset_id
                            /\ e.action = "SELL"
                      /\ cyc'[i] # cyc[i]
                      /\ \A j \in Slots \ {i} : cyc[j].pc = "idle"
       /\ saved' \in {0, 1}
       /\ (saved' = 1) <=> (\E i \in Slots : Completes(i))
       /\ (\E i \in Slots : Completes(i)) => last' = "completed"]_vars

C19_Witness ==
    /\ last = "completed"
    /\ saved = 1
    /\ Len(placed) > 0
    /\ placed[Len(placed)].action = "BUY"
    /\ \E n \in 1..Len(positions) : IsOpen(positions[n])

\* C20: a failure to write the status snapshot does not make the cycle end
\* by an error: the step after the monitor pass always ends the run normally,
\* and leaves the trades and positions of the run as they are.
C20_SnapshotFailureTolerated ==
    [][\A i \in Slots :
          Completes(i) => /\ last' = "completed"
                          /\ trades' = trades
                          /\ positions' = positions]_vars

(* Run i goes through analyze_assets and generate_trade_signals *)
Generates(i) == cyc[i].pc = "analyze" /\ cyc'[i].pc = "execute"

(* The signals about asset a in a list of signals, without their price *)
SignalsAbout(signals, a) ==
    LET about == SelectSeq(signals, LAMBDA sg : sg.asset_id = a) IN
    [n \in 1..Len(about) |-> <<about[n].action, about[n].confidence>>]

\* C21: for every scored asset the generator emits one BUY with confidence =
\* composite when composite > 75, one SELL with confidence = 100 - composite
\* when composite < 40 and the asset has an Open Position, and no signal
\* otherwise; it emits no signal about an asset that was not scored.
C21_SignalPolicy ==
    [][\A i \in Slots : Generates(i) =>
          /\ \A n \in 1..Len(ranking') :
                LET a == ranking'[n].id
                    composite == ranking'[n].composite_score
                    open == \E k \in 1..Len(positions) :
                               positions[k].asset_id = a /\ positions[k].status = "open" IN
                SignalsAbout(cyc'[i].signals, a) =
                    IF composite > 75 THEN << <<"BUY", composite>> >>
                    ELSE IF composite < 40 /\ open THEN << <<"SELL", 100 - composite>> >>
                    ELSE <<>>
          /\ \A k \in 1..Len(cyc'[i].signals) :
                \E n \in 1..Len(ranking') :
                    /\ ranking'[n].id = cyc'[i].signals[k].asset_id
                    /\ ranking'[n].price = cyc'[i].signals[k].price]_vars

C21_Witness ==
    /\ last = "analyze"
    /\ Len(ranking) = Len(Watchlist)
    /\ \E i \in Slots :
          /\ \E k \in 1..Len(cyc[i].signals) : cyc[i].signals[k].action = "SELL"
          /\ \E n \in 1..Len(ranking) :
                /\ ranking[n].composite_score < 40
                /\ \A k \in 1..Len(cyc[i].signals) :
                      cyc[i].signals[k].asset_id # ranking[n].id

(* The place of asset a in the watchlist *)
WatchPlace(a) == CHOOSE n \in 1..Len(watchlist) : watchlist[n].id = a

(* The place of asset a in the ranking r of analyze_assets *)
RankOf(r, a) == CHOOSE n \in 1..Len(r) : r[n].id = a

\* C22: the ranking is in non-increasing order of composite score with equal
\* scores in watchlist order, the signals are emitted in the order of the
\* ranking, and signal execution handles them from the head: every Trade it
\* appends is the Trade of the first signal not yet handled.
C22_RankedOrder ==
    [][\A i \in Slots :
          /\ Generates(i) =>
                /\ \A m, n \in 1..Len(ranking') :
                      m < n => \/ ranking'[m].composite_score > ranking'[n].composite_score
                               \/ /\ ranking'[m].composite_score = ranking'[n].composite_score
                                  /\ WatchPlace(ranking'[m].id) < WatchPlace(ranking'[n].id)
                /\ \A k, l \in 1..Len(cyc'[i].signals) :
                      k < l => RankOf(ranking', cyc'[i].signals[k].asset_id)
                                 < RankOf(ranking', cyc'[i].signals[l].asset_id)
          /\ (cyc[i].pc = "execute" /\ cyc'[i] # cyc[i] /\ cyc'[i].pc = "execute") =>
                /\ cyc[i].signals # <<>>
                /\ cyc'[i].signals = Tail(cyc[i].signals)
                /\ trades' # trades =>
                      /\ Len(trades') = Len(trades) + 1
                      /\ trades'[Len(trades')].asset_id = Head(cyc[i].signals).asset_id
                      /\ trades'[Len(trades')].action = Head(cyc[i].signals).action]_vars

C22_Witness ==
    /\ Len(trades) = 3
    /\ trades[2].asset_id = 2 /\ trades[2].action = "BUY"
    /\ trades[3].asset_id = 1 /\ trades[3].action = "SELL"
    /\ \E i \in Slots : cyc[i].pc = "execute" /\ cyc[i].placed0 = 1 /\ cyc[i].signals = <<>>

\* C23: the amount used for a signal is the least of 3 EUR x confidence/100
\* x (1 - min(0.5, volatility)), 10 EUR and the remaining budget; confidence
\* 80, volatility 0.2 and a budget of 15 EUR give 1.92 EUR.
C23_AmountFormula ==
    sizing # NoSizing =>
        /\ sizing.position_size * 10000
             = Min(Min(3 * Eur * sizing.confidence * (100 - Min(50, sizing.volatility)),
                       10 * Eur * 10000),
                   sizing.daily_limit * 10000)
        /\ (sizing.confidence = 80 /\ sizing.volatility = 20 /\ sizing.daily_limit = 15 * Eur)
              => sizing.position_size * 100 = 192 * Eur

C23_Witness ==
    /\ sizing # NoSizing
    /\ sizing.confidence = 100
    /\ sizing.volatility = 80
    /\ sizing.daily_limit = 15 * Eur
    /\ sizing.position_size * 2 = 3 * Eur

(* The adjustments per asset type: of the stop-loss in hundredths, of the
   take-profit in tenths *)
StopLossAdjustment(asset_type) ==
    CASE asset_type = "crypto" -> 7
      [] asset_type = "stocks" -> 6
      [] asset_type = "etf" -> 5
      [] asset_type = "precious_metals" -> 4

TakeProfitAdjustment(asset_type) ==
    CASE asset_type = "crypto" -> 13
      [] asset_type = "stocks" -> 12
      [] asset_type = "etf" -> 11
      [] asset_type = "precious_metals" -> 10

C25_LevelsFixedAtOpen ==
    [][\A n \in 1..Len(positions) :
          Truthy(positions[n].stop_loss) =>
              /\ Len(positions') >= Len(positions)
              /\ positions'[n].stop_loss = positions[n].stop_loss
              /\ positions'[n].take_profit = positions[n].take_profit
              /\ positions'[n].id = positions[n].id
              /\ positions'[n].trade_id = positions[n].trade_id
              /\ positions'[n].asset_id = positions[n].asset_id
              /\ positions'[n].quantity = positions[n].quantity
              /\ positions'[n].entry_price = positions[n].entry_price
              /\ positions[n].status = "closed" => positions'[n].status = "closed"]_vars

(* Run i handles the signal at the head of its list *)
HandlesSignal(i) ==
    /\ cyc[i].pc = "execute"
    /\ cyc[i].signals # <<>>
    /\ cyc[i].daily_limit > 0
    /\ cyc'[i] # cyc[i]

\* C26: when the amount sized for a signal is more than 0.15 of the portfolio
\* value, the signal is skipped: no order reaches the venue, no Trade and no
\* Position change is made, the budget is not charged, and the run goes on
\* with the signals that follow; every order signal execution places is for
\* an amount of at most 0.15 of the portfolio value.
C26_ConcentrationGate ==
    [][\A i \in Slots : HandlesSignal(i) =>
          LET signal == Head(cyc[i].signals)
              amount == Min(Min((3 * Eur * signal.confidence * 80) \div 10000, 10 * Eur),
                            cyc[i].daily_limit)
              over == amount * 100 > 15 * cyc[i].portfolio_value * Eur IN
          /\ over => /\ placed' = placed
                      /\ trades' = trades
                      /\ positions' = positions
                      /\ cyc'[i] = [cyc[i] EXCEPT !.signals = Tail(cyc[i].signals)]
          /\ placed' # placed =>
                LET e == placed'[Len(placed')] IN
                Notional(e.quantity, e.price) * 100 <= 15 * cyc[i].portfolio_value * Eur]_vars

C26_Witness ==
    /\ last = "concentration"
    /\ sizing.position_size * 100 > 15 * sizing.portfolio_value * Eur
    /\ placed # <<>>
    /\ \E i \in Slots : cyc[i].pc = "execute" /\ cyc[i].signals # <<>>

\* C27: a SELL signal handled by signal execution leaves every Position as
\* it is; when its order is accepted it appends a SELL Trade of the asset and
\* lowers the remaining budget by the amount; a Position goes from Open to
\* Closed only in a step of the monitor pass.
C27_SellSignalKeepsPositions ==
    [][/\ \A i \in Slots :
            (HandlesSignal(i) /\ Head(cyc[i].signals).action = "SELL") =>
                /\ positions' = positions
                /\ placed' # placed =>
                      /\ Len(trades') = Len(trades) + 1
                      /\ trades'[Len(trades')].action = "SELL"
                      /\ trades'[Len(trades')].asset_id = Head(cyc[i].signals).asset_id
                      /\ cyc'[i].daily_limit
                            = cyc[i].daily_limit
                                - Notional(trades'[Len(trades')].quantity,
                                           trades'[Len(trades')].price)
                      /\ cyc'[i].daily_limit < cyc[i].daily_limit
       /\ (\E n \in 1..Len(positions) :
              positions[n].status = "open" /\ positions'[n].status = "closed")
             => \E i \in Slots : cyc[i].pc = "monitor" /\ cyc[i].mon # <<>>]_vars

C27_Witness ==
    /\ last \in {"executed", "executed_capped"}
    /\ placed # <<>>
    /\ placed[Len(placed)].action = "SELL"
    /\ trades[Len(trades)].action = "SELL"
    /\ \E n \in 1..Len(positions) :
          /\ positions[n].asset_id = placed[Len(placed)].asset_id
          /\ positions[n].status = "open"
          /\ positions[n].quantity # placed[Len(placed)].quantity

\* C28: a run whose remaining budget is 0 or less, at the start of signal
\* execution or once the loop has used it up, handles none of its pending
\* signals: its next step leaves signal execution with no order placed, no
\* Trade appended and no Position changed; a run that starts signal
\* execution without budget sends the notification of the used-up budget.
C28_NoBudgetNoExecution ==
    [][\A i \in Slots :
          /\ (cyc[i].pc = "execute" /\ cyc[i].daily_limit <= 0 /\ cyc'[i] # cyc[i]) =>
                /\ cyc'[i].pc = "monitor"
                /\ cyc'[i].signals = <<>>
                /\ placed' = placed
                /\ trades' = trades
                /\ positions' = positions
          /\ (Generates(i) /\ cyc'[i].daily_limit <= 0) => sent' = <<"limit">>]_vars

(* A run reaches signal execution without budget, with a signal to BUY and
   a signal to SELL pending *)
C28_Witness ==
    /\ last = "analyze"
    /\ sent = <<"limit">>
    /\ \E i \in Slots :
          /\ cyc[i].pc = "execute"
          /\ cyc[i].daily_limit = 0
          /\ Len(cyc[i].signals) = 2
          /\ cyc[i].signals[1].action # cyc[i].signals[2].action

(* Run i looks at the next Open Position of its monitor pass *)
Monitors(i) ==
    /\ cyc[i].pc = "monitor"
    /\ cyc[i].mon # <<>>
    /\ cyc'[i] # cyc[i]

(* The store has no row for the asset of the Position run i looks at *)
AssetUnknown(i) == Head(cyc[i].mon).asset_id \notin assets

(* The fetch for the Position run i looks at is made and returns nothing:
   the entry held for the asset is not fresh and the step leaves it as it is *)
PriceUnavailable(i) ==
    LET a == Head(cyc[i].mon).asset_id IN
    /\ a \in assets
    /\ bound
    /\ ~CacheHit(cache, a, now)
    /\ cache'[a] = cache[a]

====
